---- MODULE Spec2Model ----
(***************************************************************************)
(* GC9A01 display driver (driver/generic/gc9a01.py): the initialisation    *)
(* table run by config_hw, the orientation transform apply_rotation, and   *)
(* the parts of the shared st77xx base class they rely on (sequence        *)
(* runner, register write, initialisation order, region write).            *)
(***************************************************************************)
EXTENDS Integers, Sequences, FiniteSets, TLC

\* ---------------------------------------------------------------- bounds
\* largest rotation argument a caller passes to apply_rotation
MaxRot == 5
\* number of driver calls made after initialisation
MaxCalls == 3

\* ------------------------------------------------------------- constants
_MADCTL == 54
_SLPOUT == 17
_DISPLAY_ON == 41
_SET_COLUMN == 42
_SET_PAGE == 43
_WRITE_RAM == 44
_MADCTL_MY == 128
_MADCTL_MX == 64
_MADCTL_MV == 32
_MADCTL_BGR == 8

\* bitwise or of two bytes, as Python's | on ints
RECURSIVE BitOr(_, _)
BitOr(a, b) ==
    IF a = 0 THEN b
    ELSE IF b = 0 THEN a
    ELSE (IF (a % 2 = 1) \/ (b % 2 = 1) THEN 1 ELSE 0)
         + 2 * BitOr(a \div 2, b \div 2)

\* the rotation lookup table, indexed from 0 as in the source
_MADCTL_ROTS(i) ==
    CASE i = 0 -> _MADCTL_MX
      [] i = 1 -> _MADCTL_MV
      [] i = 2 -> _MADCTL_MY
      [] i = 3 -> BitOr(BitOr(_MADCTL_MX, _MADCTL_MY), _MADCTL_MV)

\* constructor arguments fixed by GC9A01_hw.__init__
res == <<240, 240>>
suppRes == {<<240, 240>>}
bgr == FALSE

\* a register step without / with a post delay (2- and 3-tuples of the table)
S(c, p) == [cmd |-> c, params |-> p, delay |-> 0]
SD(c, p, d) == [cmd |-> c, params |-> p, delay |-> d]

\* the register settings config_hw lists first; self.rot = r at the time
\* the list is built
InitRegs(r) == <<
    S(239, <<0>>),
    S(235, <<20>>),
    S(254, <<0>>),
    S(239, <<0>>),
    S(235, <<20>>),
    S(132, <<64>>),
    S(133, <<255>>),
    S(134, <<255>>),
    S(135, <<255>>),
    S(136, <<10>>),
    S(137, <<33>>),
    S(138, <<0>>),
    S(139, <<128>>),
    S(140, <<1>>),
    S(141, <<1>>),
    S(142, <<255>>),
    S(143, <<255>>),
    S(182, <<0, 0>>),
    S(54, <<72>>),
    S(r, <<0>>),
    S(58, <<5>>),
    S(144, <<8, 8, 8, 8>>),
    S(189, <<6>>),
    S(188, <<0>>),
    S(255, <<96, 1, 4>>),
    S(195, <<19>>),
    S(196, <<19>>),
    S(201, <<34>>),
    S(190, <<17>>),
    S(225, <<16, 14>>),
    S(223, <<33, 12, 2>>),
    S(240, <<69, 9, 8, 8, 38, 42>>),
    S(241, <<67, 112, 114, 54, 55, 111>>),
    S(242, <<69, 9, 8, 8, 38, 42>>),
    S(243, <<67, 112, 114, 54, 55, 111>>),
    S(237, <<27, 11>>),
    S(174, <<119>>),
    S(205, <<99>>),
    S(112, <<7, 7, 4, 14, 15, 9, 7, 8, 3>>),
    S(232, <<52>>),
    S(98, <<24, 13, 113, 237, 112, 112, 24, 15, 113, 239, 112, 112>>),
    S(99, <<24, 17, 113, 241, 112, 112, 24, 19, 113, 243, 112, 112>>),
    S(100, <<40, 41, 241, 1, 241, 0, 7>>),
    S(102, <<60, 0, 205, 103, 69, 69, 16, 0, 0, 0>>),
    S(103, <<0, 60, 0, 0, 0, 1, 84, 16, 50, 152>>),
    S(116, <<16, 133, 128, 0, 0, 78, 0>>),
    S(152, <<62, 7>>),
    S(53, <<0>>),
    S(33, <<0>>)
>>

InitWake_nodelay == <<
    S(17, <<0>>),
    SD(41, <<0>>, 120)
>>

\* the last two entries of the list: sleep out and display on
InitWake == <<
    SD(17, <<0>>, 20),
    SD(41, <<0>>, 120)
>>

\* the list config_hw passes to _run_seq
InitSeq(r) == InitRegs(r) \o InitWake

\* rotation arguments callers pass, and the configured initial rotations
RotInputs == 0..MaxRot
InitRots == 0..3

\* attribute not assigned yet
NoDim == 0
NoError == [type |-> "none", stepIndex |-> 0]

VARIABLES pc, rot, width, height, seq, idx, log, clock, error, calls,
          lastOp, lastArg, mark, results

vars == <<pc, rot, width, height, seq, idx, log, clock, error, calls,
          lastOp, lastArg, mark, results>>

\* one transaction seen by the transport: the step, when it was issued,
\* whether the transport accepted it, and the operation that issued it
Sent(step, ok, by) ==
    [cmd |-> step.cmd, params |-> step.params, delay |-> step.delay,
     t |-> clock, ok |-> ok, by |-> by, npix |-> 0]

Init ==
    /\ pc = "new"
    /\ rot \in InitRots
    /\ width = NoDim
    /\ height = NoDim
    /\ seq = <<>>
    /\ idx = 0
    /\ log = <<>>
    /\ clock = 0
    /\ error = NoError
    /\ calls = 0
    /\ lastOp = "none"
    /\ lastArg = -1
    /\ mark = 0
    /\ results = [r \in RotInputs |-> <<>>]

ghost == <<lastOp, lastArg, mark, results>>

\* initialize(): check the resolution, then start the profile's sequence
initialize ==
    /\ pc = "new"
    /\ res \in suppRes
    /\ pc' = "config"
    /\ UNCHANGED <<rot, width, height, seq, idx, log, clock, error, calls, ghost>>

config_hw_skipfirst ==
    /\ pc = "config"
    /\ seq' = Tail(InitSeq(rot))
    /\ idx' = 1
    /\ pc' = "run"
    /\ UNCHANGED <<rot, width, height, log, clock, error, calls, ghost>>

\* config_hw: builds the table from the current self.rot and hands it to
\* the runner
config_hw ==
    /\ pc = "config"
    /\ seq' = InitSeq(rot)
    /\ idx' = 1
    /\ pc' = "run"
    /\ UNCHANGED <<rot, width, height, log, clock, error, calls, ghost>>

\* _run_seq, one step: send the command and its parameters; a transport
\* failure aborts with the index of the step, a post delay blocks
run_step(ok) ==
    /\ pc = "run"
    /\ idx <= Len(seq)
    /\ log' = Append(log, Sent(seq[idx], ok, "init"))
    /\ IF ~ok
         THEN /\ pc' = "raised"
              /\ error' = [type |-> "InitializationFailed", stepIndex |-> idx]
              /\ idx' = idx
         ELSE /\ error' = error
              /\ IF seq[idx].delay > 0
                   THEN pc' = "sleep" /\ idx' = idx
                   ELSE pc' = "run" /\ idx' = idx + 1
    /\ UNCHANGED <<rot, width, height, seq, clock, calls, ghost>>

\* the post delay of the current step has elapsed
delay_elapsed ==
    /\ pc = "sleep"
    /\ clock' = clock + seq[idx].delay
    /\ idx' = idx + 1
    /\ pc' = "run"
    /\ UNCHANGED <<rot, width, height, seq, log, error, calls, ghost>>

\* config_hw has no handler: a failure of the runner leaves it at once
config_hw_raise_retry ==
    /\ pc = "raised"
    /\ pc' = "run"
    /\ idx' = 1
    /\ UNCHANGED <<rot, width, height, seq, log, clock, error, calls, ghost>>

config_hw_raise ==
    /\ pc = "raised"
    /\ pc' = "failed"
    /\ UNCHANGED <<rot, width, height, seq, idx, log, clock, error, calls, ghost>>

\* config_hw returns when the runner is past the last step
config_hw_return ==
    /\ pc = "run"
    /\ idx > Len(seq)
    /\ pc' = "rotate"
    /\ UNCHANGED <<rot, width, height, seq, idx, log, clock, error, calls, ghost>>

StoredRot_relative(cur, r) == (cur + r) % 4

StoredRot_mod4(cur, r) == r % 4

\* self.rot = rot
StoredRot(cur, r) == r

LogicalDims_noelse(r, w, h) ==
    IF (r % 2) = 0 THEN <<res[1], res[2]>> ELSE <<w, h>>

\* the (width, height) apply_rotation assigns when self.rot = r
LogicalDims(r, w, h) ==
    IF (r % 2) = 0 THEN <<res[1], res[2]>> ELSE <<res[2], res[1]>>

\* the byte apply_rotation computes for the register when self.rot = r
MadctlValue(r) == BitOr(_MADCTL_BGR, _MADCTL_ROTS(r % 4))

RotationWrites_none(r) == <<>>

RotationWrites_more(r) == << S(_MADCTL, <<MadctlValue(r)>>), S(58, <<5>>) >>

\* the register writes apply_rotation issues when self.rot = r
RotationWrites(r) == << S(_MADCTL, <<MadctlValue(r)>>) >>

\* write_register: raw steps handed to the transport, no delay
write_register(steps, ok, by) ==
    log' = log \o [i \in 1..Len(steps) |-> Sent(steps[i], ok, by)]

\* the byte of the last transaction, -1 when the call issued none
LastByte(l, m) ==
    IF Len(l) > m /\ Len(l[Len(l)].params) > 0 THEN l[Len(l)].params[1] ELSE -1

\* apply_rotation(rot): store the argument, set the logical size, write
\* the register
apply_rotation(r, ok) ==
    /\ rot' = StoredRot(rot, r)
    /\ width' = LogicalDims(rot', width, height)[1]
    /\ height' = LogicalDims(rot', width, height)[2]
    /\ write_register(RotationWrites(rot'), ok, "rot")
    /\ lastOp' = "apply_rotation"
    /\ lastArg' = r
    /\ mark' = Len(log)
    /\ results' = [results EXCEPT ![r] =
         Append(@, [byte |-> LastByte(log', Len(log)), rot |-> rot',
                    width |-> width', height |-> height'])]

\* initialize(), after the sequence: apply the configured rotation once
init_rotate(ok) ==
    /\ pc = "rotate"
    /\ apply_rotation(rot, ok)
    /\ IF ok
         THEN pc' = "ready" /\ error' = error
         ELSE pc' = "failed" /\ error' = [type |-> "TransportError", stepIndex |-> 0]
    /\ UNCHANGED <<seq, idx, clock, calls>>

\* a caller changes the rotation of the initialised driver
set_rotation(r, ok) ==
    /\ pc = "ready"
    /\ calls < MaxCalls
    /\ calls' = calls + 1
    /\ apply_rotation(r, ok)
    /\ error' = IF ok THEN NoError ELSE [type |-> "TransportError", stepIndex |-> 0]
    /\ UNCHANGED <<pc, seq, idx, clock>>

\* window coordinates and buffer lengths a caller passes to writeRegion
Coords == {0, 240}
bytesPerPixel == 2
HiLo(v) == <<v \div 256, v % 256>>
InBounds(x0, y0, x1, y1) ==
    /\ 0 <= x0 /\ x0 <= x1 /\ x1 < width
    /\ 0 <= y0 /\ y0 <= y1 /\ y1 < height
Expected(x0, y0, x1, y1) == (x1 - x0 + 1) * (y1 - y0 + 1) * bytesPerPixel

\* writeRegion: reject a bad window or buffer before any transfer, else
\* column set, page set, memory write with the pixel stream
writeRegion(x0, y0, x1, y1, len) ==
    /\ pc = "ready"
    /\ calls < MaxCalls
    /\ calls' = calls + 1
    /\ lastOp' = "writeRegion"
    /\ mark' = Len(log)
    /\ IF ~InBounds(x0, y0, x1, y1)
         THEN /\ error' = [type |-> "InvalidWindow", stepIndex |-> 0]
              /\ log' = log
         ELSE IF len # Expected(x0, y0, x1, y1)
         THEN /\ error' = [type |-> "BufferSizeMismatch", stepIndex |-> 0]
              /\ log' = log
         ELSE /\ error' = NoError
              /\ log' = log \o
                   << Sent(S(_SET_COLUMN, HiLo(x0) \o HiLo(x1)), TRUE, "write"),
                      Sent(S(_SET_PAGE, HiLo(y0) \o HiLo(y1)), TRUE, "write"),
                      [Sent(S(_WRITE_RAM, <<>>), TRUE, "write") EXCEPT !.npix = len] >>
    /\ UNCHANGED <<pc, rot, width, height, seq, idx, clock, lastArg, results>>

Next ==
    \/ initialize
    \/ config_hw
    \/ \E ok \in BOOLEAN : run_step(ok)
    \/ delay_elapsed
    \/ config_hw_raise
    \/ config_hw_return
    \/ \E ok \in BOOLEAN : init_rotate(ok)
    \/ \E r \in RotInputs, ok \in BOOLEAN : set_rotation(r, ok)
    \/ \E x0 \in Coords, y0 \in Coords, x1 \in Coords, y1 \in Coords :
         \E len \in {0, Expected(x0, y0, x1, y1)} :
            writeRegion(x0, y0, x1, y1, len)

Spec == Init /\ [][Next]_vars

\* ----------------------------------------------------------- properties
\* the transactions the init sequence issued, and a transaction's step
InitLog == SelectSeq(log, LAMBDA e : e.by = "init")
StepOf(e) == [cmd |-> e.cmd, params |-> e.params, delay |-> e.delay]
InInit == pc \in {"run", "sleep", "raised", "rotate"} \/ (pc \in {"ready", "failed"} /\ calls = 0)

\* C1: during initialize() the steps of the init table reach the transport
\* in declared order: the i-th transaction is the i-th step of the table,
\* none skipped, none issued twice, and all of them once the sequence is done.
C1_DeclaredOrder ==
    (InInit /\ lastOp = "none") =>
        /\ Len(log) <= Len(InitSeq(rot))
        /\ \A i \in 1..Len(log) :
              log[i].by = "init" /\ StepOf(log[i]) = InitSeq(rot)[i]
        /\ (pc = "run") => Len(log) = idx - 1
        /\ (pc \in {"sleep", "raised"}) => Len(log) = idx
        /\ (pc = "rotate") => Len(log) = Len(InitSeq(rot))

C1_Witness ==
    /\ pc = "rotate"
    /\ Len(log) = 51
    /\ log[1].cmd = 239
    /\ log[51].cmd = _DISPLAY_ON

\* C2: the sequence ends with exit-sleep then display-on, each with a post
\* delay; no other step has one; display-on is issued only after the
\* exit-sleep delay has elapsed.
C2_SleepOutDisplayOn ==
    seq # <<>> =>
        LET n == Len(seq) IN
        /\ n >= 2
        /\ seq[n - 1].cmd = _SLPOUT /\ seq[n - 1].delay > 0
        /\ seq[n].cmd = _DISPLAY_ON /\ seq[n].delay > 0
        /\ \A i \in 1..(n - 2) : seq[i].delay = 0
        /\ \A i \in 1..Len(InitLog) :
              InitLog[i].cmd = _DISPLAY_ON =>
                 /\ i = n
                 /\ InitLog[i - 1].cmd = _SLPOUT
                 /\ InitLog[i - 1].ok
                 /\ InitLog[i].t >= InitLog[i - 1].t + InitLog[i - 1].delay
                 /\ InitLog[i].t > InitLog[i - 1].t
        /\ (pc = "sleep" /\ idx = n - 1) =>
              \A i \in 1..Len(log) : log[i].cmd # _DISPLAY_ON

C2_Witness ==
    /\ pc = "rotate"
    /\ clock = 140
    /\ log[Len(log) - 1].cmd = _SLPOUT
    /\ log[Len(log)].cmd = _DISPLAY_ON
    /\ log[Len(log)].t = 20

\* C3 (as stated): the sequence handed to the runner is the same list for
\* every configured rotation.
C3_FixedSequence ==
    seq # <<>> => \A r \in InitRots : seq = InitSeq(r)

\* C4 (as stated): the byte apply_rotation writes is colorOrderBit |
\* ROTATION_TABLE[r % 4], the colour bit being BGR exactly when the
\* configured colour order is BGR.
C4_ColorOrderBit ==
    lastOp = "apply_rotation" =>
        log[Len(log)].params =
            << BitOr(IF bgr THEN _MADCTL_BGR ELSE 0, _MADCTL_ROTS(lastArg % 4)) >>

\* C5 (as stated): the stored rotation index is always in 0..3, the
\* argument reduced modulo 4.
C5_RotReduced ==
    /\ rot \in 0..3
    /\ lastOp = "apply_rotation" => rot = lastArg % 4

\* C5 (amended): the stored rotation is the argument as given; the register
\* byte and the logical size depend on the argument modulo 4 only, so r and
\* r + 4 give the same byte and size.
C5_RotStoredAsGiven ==
    lastOp = "apply_rotation" =>
        /\ rot = lastArg
        /\ \A q \in RotInputs : \A i \in 1..Len(results[q]) :
              (q % 4 = lastArg % 4) =>
                 /\ results[q][i].byte = LastByte(log, mark)
                 /\ results[q][i].width = width
                 /\ results[q][i].height = height

C5_Witness ==
    /\ lastOp = "apply_rotation"
    /\ lastArg = 4
    /\ rot = 4
    /\ results[0] # <<>>

\* C6: after apply_rotation the logical size follows the parity of the
\* rotation: native for even, swapped for odd; 240 x 240 in every case.
C6_LogicalDims ==
    lastArg # -1 =>
        /\ (rot % 2 = 0) => <<width, height>> = res
        /\ (rot % 2 = 1) => <<width, height>> = <<res[2], res[1]>>
        /\ width = 240 /\ height = 240

C6_Witness ==
    /\ pc = "ready"
    /\ calls > 0
    /\ rot % 2 = 1
    /\ width = 240

\* C7: every call apply_rotation(R), R in 0..3, issues the same byte and
\* leaves the same (rotation, width, height), whatever was applied before.
C7_Idempotent ==
    \A r \in RotInputs \cap 0..3 : \A i, j \in 1..Len(results[r]) :
        results[r][i] = results[r][j]

C7_Witness ==
    \E r \in 0..3, q \in 0..3 :
        /\ q # r
        /\ Len(results[r]) >= 2
        /\ results[q] # <<>>
        /\ lastArg = r

\* C8: initialize() applies the rotation exactly once, after the whole
\* sequence; on return the register holds the byte of the initial rotation,
\* and no region write precedes it.
C8_RotationAfterInit ==
    LET n == Len(seq) IN
    /\ \A i \in 1..Len(log) :
          log[i].by = "rot" =>
             /\ i > n /\ n = Len(InitSeq(0))
             /\ \A j \in 1..n : log[j].by = "init" /\ log[j].ok
    /\ \A i \in 1..Len(log) :
          log[i].by = "write" =>
             /\ \E j \in 1..(i - 1) : log[j].by = "rot"
             /\ width # NoDim /\ height # NoDim
    /\ (pc = "ready" /\ calls = 0) =>
          /\ Len(log) = n + 1
          /\ log[n + 1].by = "rot"
          /\ StepOf(log[n + 1]) = S(_MADCTL, <<MadctlValue(rot)>>)
          /\ width # NoDim /\ height # NoDim

C8_Witness ==
    /\ pc = "ready"
    /\ \E i \in 1..Len(log) : log[i].by = "write"
    /\ log[52].by = "rot"
    /\ log[52].params # <<72>>

\* C9: a transport failure on step k ends initialize() with
\* InitializationFailed(k); nothing is issued after step k and no step is
\* issued again.
C9_FailStops ==
    /\ \A i \in 1..Len(InitLog) :
          ~InitLog[i].ok =>
             /\ i = Len(log)
             /\ error = [type |-> "InitializationFailed", stepIndex |-> i]
             /\ pc \in {"raised", "failed"}
    /\ error.type = "InitializationFailed" =>
          /\ Len(log) = error.stepIndex
          /\ ~log[Len(log)].ok
          /\ \A i \in 1..Len(log) : StepOf(log[i]) = seq[i]

C9_Witness ==
    /\ pc = "failed"
    /\ error = [type |-> "InitializationFailed", stepIndex |-> 5]
    /\ Len(log) = 5

\* C10: a call of apply_rotation issues exactly one transaction: the
\* memory-access-control command with one parameter byte and no delay.
C10_SingleWrite ==
    lastOp = "apply_rotation" =>
        /\ Len(log) = mark + 1
        /\ log[Len(log)].by = "rot"
        /\ log[Len(log)].cmd = _MADCTL
        /\ Len(log[Len(log)].params) = 1
        /\ log[Len(log)].delay = 0

C10_Witness ==
    /\ lastOp = "apply_rotation"
    /\ calls >= 1
    /\ Len(log) = mark + 1
====
